---- MODULE Spec2Model ----
(***************************************************************************)
(* Model of the rate-limited, cached, retrying API client of               *)
(* src/data_collection/api_client.py.                                      *)
(*                                                                         *)
(* The module-level dictionaries REQUEST_COUNTER, RATE_LIMIT_EXCEEDED and  *)
(* API_CACHE are the state.  One _make_request call is a Call step (cache  *)
(* lookup and rate check, lines 120-135) followed by one Respond step per  *)
(* iteration of the retry loop (lines 137-206).  The program is single     *)
(* threaded and its sleeps block, so the clock advances inside the steps.  *)
(* The clock counts whole seconds; a date is the clock divided by the      *)
(* length of a day.                                                        *)
(***************************************************************************)
EXTENDS Integers, Sequences, FiniteSets, TLC

\* ------------------------------------------------------------------ bounds
\* Number of _make_request calls in a run.
MaxCalls == 3
\* Daily quotas, scaled down from 1000 and 10080 so that a run exhausts them.
LimitConnections == 1
LimitStationboard == 2
\* Responses of one call that are neither 200, 429 nor an error status.
MaxStray == 1
\* Calls of get_station_board made before a collection run starts.
MaxFacadeCalls == 2
\* Calendar of the collection runs: months 1..MaxMonth of DaysInMonth days.
MaxMonth == 2
DaysInMonth == 2
\* Hourly slots requested per day (05:00-23:00 in the program).
SlotsPerDay == 1
\* Direct station-board requests of one run that fail.
MaxDirectFailures == 1
\* Connection records in the file of one day.
MaxBatch == 2
\* Segments without days of one collection run are counted up to this
\* number, then from 0 again.
MaxEmptySegments == 2

\* ------------------------------------------------------- program constants
CACHE_EXPIRY == 3600
MAX_RETRIES == 3
INITIAL_BACKOFF == 5
MAX_BACKOFF == 60
\* Upper end of the 0.5-1 s random delay before each GET, in whole seconds.
Jitter == 1
\* datetime.now().date(): the calendar day of a clock reading.
SecondsPerDay == 86400

Endpoints == {"connections", "stationboard", "locations"}

MAX_REQUESTS_PER_DAY ==
    [e \in {"connections", "stationboard"} |->
        IF e = "connections" THEN LimitConnections ELSE LimitStationboard]

\* The process starts late in the evening, so that a cache entry can expire
\* before midnight and a retry loop can run across midnight.
StartTime == SecondsPerDay - CACHE_EXPIRY - 20

Min(a, b) == IF a < b THEN a ELSE b

DateOf(t) == t \div SecondsPerDay

\* ------------------------------------------------------------ cache keys
\* A params dict is a sequence of <<key, value>> pairs in insertion order.
ParamsSet ==
    { << <<"from", "Luzern">>, <<"to", "Genf">> >>,
      << <<"to", "Genf">>, <<"from", "Luzern">> >> }

\* Lexicographic rank of the parameter names (sort_keys=True).
KeyRank(k) == CASE k = "from" -> 1 [] k = "limit" -> 2 [] k = "to" -> 3

RECURSIVE InsertByKey(_, _)
InsertByKey(pair, sorted) ==
    IF sorted = <<>> THEN <<pair>>
    ELSE IF KeyRank(pair[1]) <= KeyRank(Head(sorted)[1])
         THEN <<pair>> \o sorted
         ELSE <<Head(sorted)>> \o InsertByKey(pair, Tail(sorted))

RECURSIVE SortKeys(_)
SortKeys(params) ==
    IF params = <<>> THEN <<>>
    ELSE InsertByKey(Head(params), SortKeys(Tail(params)))

EndpointUrl(e) == <<"http://transport.opendata.ch/v1", e>>

\* Mutant: the key is built from the parameters in insertion order.
CacheKey_Unsorted(url, params) == <<url, params>>

\* cache_key = f"{url}_{json.dumps(params, sort_keys=True)}"
CacheKey(url, params) == <<url, SortKeys(params)>>

\* ------------------------------------------------------------- Retry-After
\* A header value is a sequence of characters; NoHeader is headers.get -> None.
NoHeader == <<"None">>
RetryAfterValues == { NoHeader, <<"2">>, <<"-", "1">>, <<"s", "o", "o", "n">> }

DigitValue(c) ==
    CASE c = "0" -> 0 [] c = "1" -> 1 [] c = "2" -> 2 [] c = "3" -> 3
      [] c = "4" -> 4 [] c = "5" -> 5 [] c = "6" -> 6 [] c = "7" -> 7
      [] c = "8" -> 8 [] c = "9" -> 9 [] OTHER -> -1

RECURSIVE DigitsValue(_, _)
DigitsValue(s, acc) ==
    IF s = <<>> THEN acc
    ELSE IF DigitValue(Head(s)) < 0 THEN -1
    ELSE DigitsValue(Tail(s), acc * 10 + DigitValue(Head(s)))

\* int(retry_after): [ok |-> TRUE, value |-> n], or ok = FALSE for ValueError.
ParseInt(s) ==
    LET neg == s # <<>> /\ Head(s) = "-"
        digits == IF neg THEN Tail(s) ELSE s
        v == IF digits = <<>> THEN -1 ELSE DigitsValue(digits, 0)
    IN  IF v < 0 THEN [ok |-> FALSE, value |-> 0]
        ELSE [ok |-> TRUE, value |-> IF neg THEN 0 - v ELSE v]

\* Lines 166-173: the server's Retry-After when it parses, else the backoff.
WaitTime(retry_after, backoff) ==
    IF retry_after # NoHeader /\ retry_after # <<>> /\ ParseInt(retry_after).ok
    THEN ParseInt(retry_after).value
    ELSE backoff

\* Mutant: the backoff is never increased.
NextBackoff_NoDoubling(backoff) == backoff

\* Lines 184 and 201.
NextBackoff(backoff) == Min(backoff * 2, MAX_BACKOFF)

\* Lines 181 and 197: another attempt follows.
RetriesRemain(r) == r <= MAX_RETRIES

\* Mutant: entries never expire.
CacheFresh_NoExpiry(item, t) == TRUE

\* Line 124: the entry is young enough to be served.
CacheFresh(item, t) == t - item.timestamp < CACHE_EXPIRY


\* ------------------------------------------------------------------- state
VARIABLES
    now,                  \* the wall clock, in seconds
    REQUEST_COUNTER,      \* endpoint -> requests counted since last_reset
    last_reset,           \* REQUEST_COUNTER["last_reset"], a date
    RATE_LIMIT_EXCEEDED,  \* endpoint -> cooldown flag
    reset_time,           \* RATE_LIMIT_EXCEEDED["reset_time"]
    API_CACHE,            \* cache key -> [data, timestamp]
    pc,                   \* "idle", "loop" (in the retry loop), "returned", "raised"
    endpoint_type,        \* arguments of the current call
    params,
    retries,              \* locals of the current call
    backoff_time,
    result,               \* what the last call returned
    \* history of the run, read by the properties only
    calls,                \* calls started
    called_at,            \* clock at the start of the current call
    gets,                 \* HTTP GETs issued by the current call
    sleeps,               \* backoff sleeps of the current call, in order
    plain429,             \* every response of the current call was a 429 without Retry-After
    served,               \* how the current call ended
    succeeded,            \* endpoint -> calls that returned a network payload since last_reset
    cooldown_until,       \* endpoint -> resume time armed by its latest 429
    last_get,             \* the latest GET of the current call: endpoint, time, resume time then armed
    found_age,            \* age of the cache entry the current call found for its request, -1 if none
    fetched,              \* <<endpoint, params dict>> -> the latest successful fetch
    \* station-board collection (station_board.py)
    collecting,           \* "off", "slots" (inside collect_data_for_period), "done"
    period,               \* start and end date of collect_data_for_period
    station_ix,           \* position in TARGET_STATIONS
    start_date,           \* first day of the current collect_station_data call
    current_date,         \* day being collected
    slot_ix,              \* position in time_slots
    all_entries,          \* entries collected by the current collect_station_data call
    files,                \* <<month directory, file name>> -> rows written
    direct,               \* history: direct GETs that succeeded, failed, were sent while the tracker
                          \* denies; segments of no days (counted modulo MaxEmptySegments + 1);
                          \* the <<station, day>> collected, in order
    \* reconciliation (delay_analysis.py, analyze_connections_for_day)
    recon,                \* "idle", "rows" (in the loop of line 341), "saved", "nothing", "skipped"
    batch,                \* history: the raw connections the connection file was written from
    connection_df,        \* the loaded connection rows
    from_station_df,      \* the loaded station boards: columns and rows
    to_station_df,
    row_ix,               \* the row the loop is at
    enhanced_connections, \* the enriched records collected so far
    outcomes,             \* history: what the matching of each row did
    \* record normalizer (connections.py, station_board.py)
    normalized            \* the latest call of a normalizer function: its input and what it returned

collect == <<collecting, period, station_ix, start_date, current_date, slot_ix,
             all_entries, files, direct>>

normalizer == <<normalized>>

analysis == <<recon, batch, connection_df, from_station_df, to_station_df, row_ix,
              enhanced_connections, outcomes>>

vars == <<now, REQUEST_COUNTER, last_reset, RATE_LIMIT_EXCEEDED, reset_time,
          API_CACHE, pc, endpoint_type, params, retries, backoff_time, result,
          calls, called_at, gets, sleeps, plain429, served, succeeded,
          cooldown_until, last_get, found_age, fetched, collect, analysis, normalizer>>

client == <<now, REQUEST_COUNTER, last_reset, RATE_LIMIT_EXCEEDED, reset_time,
            API_CACHE, pc, endpoint_type, params, retries, backoff_time, result,
            calls, called_at, gets, sleeps, plain429, served, succeeded,
            cooldown_until, last_get, found_age, fetched>>

program == <<REQUEST_COUNTER, last_reset, RATE_LIMIT_EXCEEDED, reset_time, API_CACHE>>
locals == <<endpoint_type, params, retries, backoff_time>>

EmptyMap == [k \in {} |-> 0]
NoGet == [endpoint |-> "none", at |-> 0, armed |-> 0]

\* The body the server sends at time t: its content changes with time.
Body(t) == <<"body", t>>
ErrorResult(msg) == [error |-> msg]
\* Mutant: what a successful fetch hands back is an error result.
PayloadResult_AsError(data) == [error |-> data]
PayloadResult(data) == [data |-> data]
IsError(r) == "error" \in DOMAIN r

\* The dict a params sequence denotes, whatever its insertion order.
DictOf(p) == { p[i] : i \in 1..Len(p) }

\* Time the caller lets pass between two calls.
ElapseSet == {0, CACHE_EXPIRY}

Init ==
    /\ now = StartTime
    /\ REQUEST_COUNTER = [e \in Endpoints |-> 0]
    /\ last_reset = DateOf(StartTime)
    /\ RATE_LIMIT_EXCEEDED = [e \in Endpoints |-> FALSE]
    /\ reset_time = StartTime
    /\ API_CACHE = EmptyMap
    /\ pc = "idle"
    /\ endpoint_type = "locations"
    /\ params = <<>>
    /\ retries = 0
    /\ backoff_time = INITIAL_BACKOFF
    /\ result = ErrorResult("none")
    /\ calls = 0
    /\ called_at = StartTime
    /\ gets = 0
    /\ sleeps = <<>>
    /\ plain429 = TRUE
    /\ served = "none"
    /\ succeeded = [e \in Endpoints |-> 0]
    /\ cooldown_until = [e \in Endpoints |-> StartTime]
    /\ last_get = NoGet
    /\ found_age = -1
    /\ fetched = EmptyMap
    /\ collecting = "off"
    /\ period = [start |-> 1, end |-> 1]
    /\ station_ix = 1
    /\ start_date = 1
    /\ current_date = 1
    /\ slot_ix = 1
    /\ all_entries = <<>>
    /\ files = EmptyMap
    /\ direct = [ok |-> 0, failed |-> 0, denied |-> 0, empty |-> 0, days |-> <<>>]
    /\ recon = "idle"
    /\ batch = <<>>
    /\ connection_df = <<>>
    /\ from_station_df = [columns |-> {}, rows |-> <<>>]
    /\ to_station_df = [columns |-> {}, rows |-> <<>>]
    /\ row_ix = 1
    /\ enhanced_connections = <<>>
    /\ outcomes = <<>>
    /\ normalized = [fn |-> "none"]

\* The request of a call is the one stored under cache key k: same URL, same
\* parameters in whatever order.
SameRequest(k, e, p) == k[1] = EndpointUrl(e) /\ DictOf(k[2]) = DictOf(p)

\* History only: the age at time t of the entry stored for the request.
AgeOfEntry(e, p, t) ==
    IF \E k \in DOMAIN API_CACHE : SameRequest(k, e, p)
    THEN t - API_CACHE[CHOOSE k \in DOMAIN API_CACHE : SameRequest(k, e, p)].timestamp
    ELSE -1

\* ------------------------------------------------------------ rate tracker
\* Lines 64-72, _reset_counter_if_new_day.
NewDay(last, t) == last < DateOf(t)
CountersAfterReset(counter, last, t) ==
    IF NewDay(last, t) THEN [e \in Endpoints |-> 0] ELSE counter

\* Line 90: the cooldown is over.
CooldownOver(t, reset) == t > reset

\* Lines 88-92: the flag of the endpoint after the check.
FlagsAfterCheck(e, flags, reset, t) ==
    IF flags[e] /\ CooldownOver(t, reset) THEN [flags EXCEPT ![e] = FALSE] ELSE flags

\* Lines 98-105: the quota comparison.
QuotaAllows(e, counter) ==
    IF e \notin DOMAIN MAX_REQUESTS_PER_DAY THEN TRUE
    ELSE ~(counter[e] >= MAX_REQUESTS_PER_DAY[e])

\* Mutant: the cooldown is not consulted.
CheckRateLimit_NoCooldown(e, counter, flags, reset, t) == QuotaAllows(e, counter)

\* Lines 75-105: the value _check_rate_limit returns, counter being the
\* counters after the daily reset.
CheckRateLimit(e, counter, flags, reset, t) ==
    IF flags[e] /\ ~CooldownOver(t, reset) THEN FALSE
    ELSE QuotaAllows(e, counter)

\* Mutant: the rate check runs before the cache is consulted.
ReachesRateCheck_Always(hit) == TRUE

\* Lines 124-129: the rate check is reached only when the cache does not answer.
ReachesRateCheck(hit) == ~hit

\* ----------------------------------------------------------- _make_request
\* Lines 120-135: cache lookup, rate check, entry into the retry loop.
\* d is the time the caller let pass since the previous call ended.
CallWithin(limit, e, p, d) ==
    /\ pc # "loop"
    /\ calls < limit
    /\ UNCHANGED <<collect, analysis, normalizer>>
    /\ LET t == now + d
           key == CacheKey(EndpointUrl(e), p)
           hit == key \in DOMAIN API_CACHE /\ CacheFresh(API_CACHE[key], t)
           checked == ReachesRateCheck(hit)
           counter == IF checked THEN CountersAfterReset(REQUEST_COUNTER, last_reset, t)
                      ELSE REQUEST_COUNTER
           proceed == CheckRateLimit(e, counter, RATE_LIMIT_EXCEEDED, reset_time, t)
       IN  /\ now' = t
           /\ called_at' = t
           /\ calls' = calls + 1
           /\ endpoint_type' = e
           /\ params' = p
           /\ gets' = 0
           /\ sleeps' = <<>>
           /\ plain429' = TRUE
           /\ retries' = 0
           /\ backoff_time' = INITIAL_BACKOFF
           /\ REQUEST_COUNTER' = counter
           /\ succeeded' = IF checked /\ NewDay(last_reset, t)
                           THEN [x \in Endpoints |-> 0] ELSE succeeded
           /\ last_reset' = IF checked /\ NewDay(last_reset, t) THEN DateOf(t) ELSE last_reset
           /\ RATE_LIMIT_EXCEEDED' =
                 IF checked THEN FlagsAfterCheck(e, RATE_LIMIT_EXCEEDED, reset_time, t)
                 ELSE RATE_LIMIT_EXCEEDED
           /\ last_get' = NoGet
           /\ found_age' = AgeOfEntry(e, p, t)
           /\ UNCHANGED <<reset_time, API_CACHE, cooldown_until, fetched>>
           /\ IF hit
              THEN /\ pc' = "returned"
                   /\ result' = PayloadResult(API_CACHE[key].data)
                   /\ served' = "cache"
              ELSE IF ~proceed
              THEN /\ pc' = "returned"
                   /\ result' = ErrorResult("Rate limit exceeded")
                   /\ served' = "denied"
              ELSE /\ pc' = "loop"
                   /\ result' = ErrorResult("none")
                   /\ served' = "none"

Call(e, p, d) == CallWithin(MaxCalls, e, p, d)

\* The call returns r: its locals are gone.
Return(r, how) ==
    /\ pc' = "returned"
    /\ result' = r
    /\ served' = how
    /\ retries' = 0
    /\ backoff_time' = INITIAL_BACKOFF

\* Lines 139-144: the jittered GET; t is the time the response arrives.
Get(t) ==
    /\ pc = "loop"
    /\ t = now + Jitter
    /\ gets' = gets + 1
    /\ last_get' = [endpoint |-> endpoint_type, at |-> t,
                    armed |-> cooldown_until[endpoint_type]]
    /\ UNCHANGED <<endpoint_type, params, calls, called_at, found_age, collect, analysis, normalizer>>

\* Lines 193-203: a RequestException was caught at time t.
Caught(t) ==
    IF RetriesRemain(retries + 1)
    THEN /\ retries' = retries + 1
         /\ now' = t + backoff_time
         /\ sleeps' = Append(sleeps, backoff_time)
         /\ backoff_time' = NextBackoff(backoff_time)
         /\ UNCHANGED <<pc, result, served>>
    ELSE /\ now' = t
         /\ sleeps' = sleeps
         /\ Return(ErrorResult("request exception"), "failed")

\* Lines 147-159: status 200 with a body that decodes.
Respond200 ==
    LET t == now + Jitter
        data == Body(t)
        key == CacheKey(EndpointUrl(endpoint_type), params)
    IN  /\ Get(t)
        /\ now' = t
        /\ REQUEST_COUNTER' = [REQUEST_COUNTER EXCEPT ![endpoint_type] = @ + 1]
        /\ API_CACHE' = (key :> [data |-> data, timestamp |-> t]) @@ API_CACHE
        /\ Return(PayloadResult(data), "network")
        /\ succeeded' = [succeeded EXCEPT ![endpoint_type] = @ + 1]
        /\ fetched' = (<<endpoint_type, DictOf(params)>> :>
                          [at |-> t, data |-> data, gets |-> gets + 1,
                           params |-> params]) @@ fetched
        /\ plain429' = FALSE
        /\ UNCHANGED <<last_reset, RATE_LIMIT_EXCEEDED, reset_time, cooldown_until, sleeps>>

\* Lines 147-151 and 193: status 200 with a body response.json() cannot decode.
\* requests 2.27 and later raise a RequestException subclass, which line 193
\* catches; earlier releases raise a plain ValueError, which reaches the caller.
Respond200Undecodable(is_request_exception) ==
    LET t == now + Jitter
    IN  /\ Get(t)
        /\ REQUEST_COUNTER' = [REQUEST_COUNTER EXCEPT ![endpoint_type] = @ + 1]
        /\ plain429' = FALSE
        /\ IF is_request_exception
           THEN Caught(t)
           ELSE /\ now' = t
                /\ pc' = "raised"
                /\ result' = ErrorResult("none")
                /\ served' = "raised"
                /\ UNCHANGED <<retries, backoff_time, sleeps>>
        /\ UNCHANGED <<last_reset, RATE_LIMIT_EXCEEDED, reset_time, API_CACHE,
                       succeeded, cooldown_until, fetched>>

\* Lines 162-187: status 429.
Respond429(retry_after) ==
    LET t == now + Jitter
        wait_time == WaitTime(retry_after, backoff_time)
    IN  /\ Get(t)
        /\ RATE_LIMIT_EXCEEDED' = [RATE_LIMIT_EXCEEDED EXCEPT ![endpoint_type] = TRUE]
        /\ reset_time' = t + wait_time
        /\ cooldown_until' = [cooldown_until EXCEPT ![endpoint_type] = t + wait_time]
        /\ plain429' = (plain429 /\ retry_after = NoHeader)
        /\ IF RetriesRemain(retries + 1)
           THEN IF wait_time < 0
                THEN \* time.sleep of a negative number raises ValueError
                     /\ now' = t
                     /\ pc' = "raised"
                     /\ result' = ErrorResult("none")
                     /\ served' = "raised"
                     /\ UNCHANGED <<retries, backoff_time, sleeps>>
                ELSE /\ retries' = retries + 1
                     /\ now' = t + wait_time
                     /\ sleeps' = Append(sleeps, wait_time)
                     /\ backoff_time' = NextBackoff(backoff_time)
                     /\ UNCHANGED <<pc, result, served>>
           ELSE /\ now' = t
                /\ sleeps' = sleeps
                /\ Return(ErrorResult("Rate limit exceeded after retries"), "limited")
        /\ UNCHANGED <<REQUEST_COUNTER, last_reset, API_CACHE, succeeded, fetched>>

\* Lines 190-203: an error status (raise_for_status raises HTTPError), or
\* requests.get itself raises (no connection, timeout).
RequestFails(kind) ==
    LET t == now + Jitter
    IN  /\ kind \in {"http_error", "network"}
        /\ Get(t)
        /\ plain429' = FALSE
        /\ Caught(t)
        /\ UNCHANGED <<program, succeeded, cooldown_until, fetched>>

\* Lines 190-191 and 137: a status that is neither 200 nor 429 and below 400
\* (204, 304): raise_for_status returns, nothing is counted, the loop goes on.
RespondStray ==
    LET t == now + Jitter
    IN  /\ gets - retries < MaxStray
        /\ Get(t)
        /\ now' = t
        /\ plain429' = FALSE
        /\ UNCHANGED <<program, pc, result, served, retries, backoff_time, sleeps,
                       succeeded, cooldown_until, fetched>>

\* Lines 305-309, clear_cache, called between two requests.
ClearCache ==
    /\ pc # "loop"
    /\ API_CACHE # EmptyMap
    /\ API_CACHE' = EmptyMap
    /\ pc' = "idle"
    /\ served' = "none"
    /\ result' = ErrorResult("none")
    /\ fetched' = EmptyMap
    /\ found_age' = -1
    /\ UNCHANGED <<now, REQUEST_COUNTER, last_reset, RATE_LIMIT_EXCEEDED, reset_time,
                   locals, calls, called_at, gets, sleeps, plain429, succeeded,
                   cooldown_until, last_get, collect, analysis, normalizer>>

\* ------------------------------------------------------------ client facade
\* Lines 228, 263 and 302: the key under which each accessor reads its list.
FacadeKey(e) ==
    CASE e = "locations" -> "stations"
      [] e = "stationboard" -> "stationboard"
      [] e = "connections" -> "connections"

\* response.get(key, []) on a decoded body: the list the body holds under key.
Items(data, key) == <<key, data[2]>>

\* Mutant: the accessor hands the executor's result to its caller as it is.
FacadeReturn_Propagates(e, response) == response

\* Lines 224-228, 259-263 and 298-302: get_station_info, get_station_board
\* and get_connections return [] on an error result, else the list.
FacadeReturn(e, response) ==
    IF IsError(response) THEN <<>> ELSE Items(response.data, FacadeKey(e))

\* A session of calls against a server that answers 200 or 429.
Next ==
    \/ \E e \in Endpoints, p \in ParamsSet, d \in ElapseSet : Call(e, p, d)
    \/ Respond200
    \/ Respond429(NoHeader)

Spec == Init /\ [][Next]_vars

\* One call against a server that may answer anything, and a forced refresh.
NextRetry ==
    \/ \E e \in Endpoints, p \in ParamsSet : CallWithin(1, e, p, 0)
    \/ Respond200
    \/ \E c \in BOOLEAN : Respond200Undecodable(c)
    \/ \E h \in RetryAfterValues : Respond429(h)
    \/ \E k \in {"http_error", "network"} : RequestFails(k)
    \/ RespondStray
    \/ ClearCache

SpecRetry == Init /\ [][NextRetry]_vars


\* ------------------------------------------- station-board collection
\* config.py, TARGET_STATIONS in dictionary order; a name is a sequence of
\* words and blanks.
TARGET_STATIONS ==
    << [name |-> <<"Luzern">>, id |-> "8505000"],
       [name |-> <<"Zürich", " ", "HB">>, id |-> "8503000"],
       [name |-> <<"Genève">>, id |-> "8501008"] >>

\* A date is the number of its day, counted from day 1 of month 1.
MonthOf(date) == (date - 1) \div DaysInMonth + 1
FirstOfMonth(m) == (m - 1) * DaysInMonth + 1
\* strftime('%Y-%m-%d') and strftime('%Y-%m'): month and day of the month.
DateStr(date) == <<MonthOf(date), ((date - 1) % DaysInMonth) + 1>>
MonthStr(date) == <<MonthOf(date)>>

\* name.replace(' ', '_')
RECURSIVE Sanitize(_)
Sanitize(name) ==
    IF name = <<>> THEN <<>>
    ELSE <<IF Head(name) = " " THEN "_" ELSE Head(name)>> \o Sanitize(Tail(name))

\* station_board.py line 372: f"{sanitized}_{start_date}.csv" in month_dir.
StationFileName(station_name, date) == <<Sanitize(station_name), DateStr(date), "csv">>

\* station_board.py lines 457-460: the last day of the month of current,
\* or the end of the period when that comes first.  The step past the end of
\* the month (32 days in the program) is one day more than a month.
MonthEnd(current, end) ==
    LET stepped == Min(FirstOfMonth(MonthOf(current)) + DaysInMonth + 1, end + 1)
    IN  FirstOfMonth(MonthOf(stepped)) - 1

\* station_board.py lines 328-338: the hourly slots.
TimeSlots == [i \in 1..SlotsPerDay |-> 4 + i]

\* The request of station_board.py lines 88-98.
DirectParams(station_id, date, slot, type) ==
    [station |-> station_id, type |-> type, datetime |-> <<DateStr(date), slot>>]

\* station_board.py lines 390-403: the rows one slot adds to all_entries, given
\* whether the direct GET succeeded (a failed one yields {"stationboard": []}).
SlotEntries(station, date, slot, ok) ==
    IF ok
    THEN << [station_id |-> station.id,
             board_type |-> "arrival",
             request_time |-> slot,
             request_date |-> DateStr(date),
             asked |-> DirectParams(station.id, date, slot, "arrival")] >>
    ELSE <<>>

\* station_board.py lines 496-508 and 440-454: collect_monthly_data(year, m)
\* enters collect_data_for_period with the first and last day of the month.
StartCollection(m) ==
    /\ collecting = "off"
    /\ pc # "loop"
    /\ m \in 1..MaxMonth
    /\ collecting' = "slots"
    /\ period' = [start |-> FirstOfMonth(m), end |-> FirstOfMonth(m + 1) - 1]
    /\ station_ix' = 1
    /\ start_date' = FirstOfMonth(m)
    /\ current_date' = FirstOfMonth(m)
    /\ slot_ix' = 1
    /\ all_entries' = <<>>
    /\ UNCHANGED <<files, direct>>
    /\ UNCHANGED <<client, analysis, normalizer>>

\* station_board.py lines 383-424 and 455-478: one time slot of
\* collect_station_data: the direct requests.get of get_station_board_direct,
\* and after the last slot of the last day the CSV file and the move of
\* collect_data_for_period to the next segment or station.
CollectSlot(ok) ==
    /\ collecting = "slots"
    /\ start_date <= MonthEnd(start_date, period.end)
    /\ ok \/ direct.failed < MaxDirectFailures
    /\ LET station == TARGET_STATIONS[station_ix]
           entries == all_entries \o
                         SlotEntries(station, current_date, TimeSlots[slot_ix], ok)
           month_end == MonthEnd(start_date, period.end)
           file == <<MonthStr(start_date), StationFileName(station.name, start_date)>>
           allowed == CheckRateLimit("stationboard",
                          CountersAfterReset(REQUEST_COUNTER, last_reset, now),
                          RATE_LIMIT_EXCEEDED, reset_time, now)
       IN  /\ direct' = [ok |-> direct.ok + (IF ok THEN 1 ELSE 0),
                         failed |-> direct.failed + (IF ok THEN 0 ELSE 1),
                         denied |-> direct.denied + (IF allowed THEN 0 ELSE 1),
                         empty |-> direct.empty,
                         days |-> IF slot_ix = 1
                                  THEN Append(direct.days, <<station_ix, current_date>>)
                                  ELSE direct.days]
           /\ IF slot_ix < SlotsPerDay
              THEN /\ slot_ix' = slot_ix + 1
                   /\ all_entries' = entries
                   /\ UNCHANGED <<collecting, station_ix, start_date, current_date, files>>
              ELSE IF current_date < month_end
              THEN /\ slot_ix' = 1
                   /\ current_date' = current_date + 1
                   /\ all_entries' = entries
                   /\ UNCHANGED <<collecting, station_ix, start_date, files>>
              ELSE /\ slot_ix' = 1
                   /\ all_entries' = <<>>
                   /\ files' = IF entries # <<>> THEN (file :> entries) @@ files ELSE files
                   /\ IF month_end + 1 <= period.end
                      THEN /\ start_date' = month_end + 1
                           /\ current_date' = month_end + 1
                           /\ UNCHANGED <<collecting, station_ix>>
                      ELSE /\ start_date' = period.start
                           /\ current_date' = period.start
                           /\ IF station_ix < Len(TARGET_STATIONS)
                              THEN station_ix' = station_ix + 1 /\ UNCHANGED collecting
                              ELSE station_ix' = station_ix /\ collecting' = "done"
    /\ UNCHANGED period
    /\ UNCHANGED <<client, analysis, normalizer>>

\* station_board.py lines 440-454: collect_data_for_period(start_date,
\* end_date) with any two days, the first not after the second.
StartPeriod(start, end) ==
    /\ collecting = "off"
    /\ pc # "loop"
    /\ start <= end
    /\ collecting' = "slots"
    /\ period' = [start |-> start, end |-> end]
    /\ station_ix' = 1
    /\ start_date' = start
    /\ current_date' = start
    /\ slot_ix' = 1
    /\ all_entries' = <<>>
    /\ UNCHANGED <<files, direct>>
    /\ UNCHANGED <<client, analysis, normalizer>>

\* station_board.py lines 455-478 and 379-380: a segment whose month_end
\* lies before its first day.  segment_days is not positive, so
\* collect_station_data runs its loop over range(segment_days) not at all,
\* collects nothing and returns ""; the while loop goes on at month_end + 1,
\* which is not after the end of the period.
EmptySegment ==
    /\ collecting = "slots"
    /\ MonthEnd(start_date, period.end) < start_date
    /\ start_date' = MonthEnd(start_date, period.end) + 1
    /\ current_date' = MonthEnd(start_date, period.end) + 1
    /\ direct' = [direct EXCEPT !.empty = (@ + 1) % (MaxEmptySegments + 1)]
    /\ UNCHANGED <<collecting, period, station_ix, slot_ix, all_entries, files>>
    /\ UNCHANGED <<client, analysis, normalizer>>

\* delay_analysis.py lines 106-136: find_station_files(year, month, station,
\* date): the files of the month directory whose name is the pattern
\* f"{sanitized}_{date}.csv".
FindStationFiles(station_name, date) ==
    { f \in DOMAIN files :
         /\ f[1] = MonthStr(date)
         /\ f[2] = <<Sanitize(station_name), DateStr(date), "csv">> }

\* Calls of get_station_board, then a collection run.
NextCollect ==
    \/ \E p \in ParamsSet, d \in ElapseSet :
          collecting = "off" /\ CallWithin(MaxFacadeCalls, "stationboard", p, d)
    \/ Respond200
    \/ Respond429(NoHeader)
    \/ \E m \in 1..MaxMonth : StartCollection(m)
    \/ \E ok \in BOOLEAN : CollectSlot(ok)

SpecCollect == Init /\ [][NextCollect]_vars

\* One run of collect_data_for_period over any period of the calendar.
NextPeriod ==
    \/ \E start \in 1..(MaxMonth * DaysInMonth), end \in 1..(MaxMonth * DaysInMonth) :
          StartPeriod(start, end)
    \/ \E ok \in BOOLEAN : CollectSlot(ok)
    \/ EmptySegment

SpecPeriod == Init /\ [][NextPeriod]_vars

\* The collection is a sequential loop: its next step is always taken.
SpecPeriodLive ==
    SpecPeriod /\ WF_vars(\E ok \in BOOLEAN : CollectSlot(ok)) /\ WF_vars(EmptySegment)

\* ------------------------------------------------------- record normalizer
\* A cell that holds nothing (None in a record, NaN in a loaded CSV row) is
\* <<>>, a number or a time n is <<n>>; times are minutes since midnight.
\* A text cell is a string, "NaN" when the CSV cell is empty and "None" when
\* the key is absent from the record.
Null == <<>>
NoLeg == [category |-> "None", number |-> "None"]
NaNLeg == [category |-> "NaN", number |-> "NaN"]

EmptyLeg == [category |-> "", number |-> ""]

\* Raw connections of the API, reduced to what the matching reads: the
\* scheduled times, the delays and the sections.  A section is a leg with a
\* journey, a walk whose journey is null, or a section without journey key.
Journey(c, n) == [journey |-> <<[category |-> c, number |-> n]>>]
Walk == [journey |-> <<>>]
NoJourney == [walk |-> TRUE]
SectionShapes ==
    { <<Journey("IC", "1")>>,
      <<Journey("IC", "1"), Journey("IR", "2")>>,
      <<Journey("IC", "1"), Walk, Journey("IR", "2")>>,
      <<Journey("IC", "1"), NoJourney, Journey("IR", "2")>>,
      <<Walk, Journey("IC", "1")>> }
\* The delays (departure, arrival) of a direct connection, each a number of
\* minutes or null.
DirectDelays == { <<Null, <<5>>>>, <<Null, Null>>, <<<<3>>, <<5>>>> }
RawConnections ==
    { [departure |-> <<602>>, arrival |-> <<702>>, departure_delay |-> <<3>>,
       arrival_delay |-> Null, sections |-> s] : s \in SectionShapes }
    \cup
    { [departure |-> <<602>>, arrival |-> <<702>>, departure_delay |-> d[1],
       arrival_delay |-> d[2], sections |-> <<Journey("IC", "1")>>] : d \in DirectDelays }

\* connections.py lines 266-289 and 302-307: the record process_connection
\* writes.  A section without journey key writes no section_i_* keys, a null
\* journey writes '' (safe_get on None); the scheduled times are written as
\* departure_time and arrival_time.
ProcessConnection(raw) ==
    [fields |-> [departure_time |-> raw.departure,
                 arrival_time |-> raw.arrival,
                 departure_delay |-> raw.departure_delay,
                 arrival_delay |-> raw.arrival_delay],
     sections |-> [i \in {j \in 1..Len(raw.sections) : "journey" \in DOMAIN raw.sections[j]}
                     |-> IF raw.sections[i].journey # <<>>
                         THEN raw.sections[i].journey[1] ELSE EmptyLeg]]

\* A connection record that also carries the columns departure_datetime and
\* arrival_datetime, which delay_analysis.py lines 215 and 237 look for.
WithDatetime(record) ==
    [record EXCEPT !.fields =
        [departure_datetime |-> record.fields.departure_time,
         arrival_datetime |-> record.fields.arrival_time] @@ record.fields]

ConnectionSchemas == {"written", "with_datetime"}
ConnectionRecord(raw, schema) ==
    IF schema = "written" THEN ProcessConnection(raw)
    ELSE WithDatetime(ProcessConnection(raw))

\* connections.py line 428 and delay_analysis.py lines 150 and 324:
\* DataFrame(records) has the union of the records' keys as columns, and a
\* row read back from the CSV holds NaN where its record had no such key or
\* an empty string.
RECURSIVE SectionColumns(_)
SectionColumns(records) ==
    IF records = <<>> THEN {}
    ELSE DOMAIN Head(records).sections \cup SectionColumns(Tail(records))

LoadConnectionData(records) ==
    [n \in 1..Len(records) |->
        [records[n] EXCEPT !.sections =
            [i \in SectionColumns(records) |->
                IF i \in DOMAIN records[n].sections /\ records[n].sections[i] # EmptyLeg
                THEN records[n].sections[i] ELSE NaNLeg]]]

\* The legs of a raw connection: its sections that carry a journey.
RECURSIVE Legs(_)
Legs(sections) ==
    IF sections = <<>> THEN <<>>
    ELSE (IF "journey" \in DOMAIN Head(sections) THEN Head(sections).journey ELSE <<>>)
            \o Legs(Tail(sections))

\* Station-board items of the API: the train, the type of board they were
\* requested from, the scheduled time of the stop, its delay and platform.
Stop(type, c, n, t, d, p) ==
    [type |-> type, category |-> c, number |-> n, time |-> <<t>>,
     delay |-> <<d>>, platform |-> <<p>>]

\* station_board.py lines 244-268 and 400: the row process_stationboard_entry
\* and collect_station_data write.
WrittenColumns ==
    {"board_type", "train_category", "train_number", "departure_time",
     "arrival_time", "delay", "platform"}
ProcessStationboardEntry(entry) ==
    [board_type |-> entry.type,
     train_category |-> entry.category,
     train_number |-> entry.number,
     departure_time |-> IF entry.type = "departure" THEN entry.time ELSE Null,
     arrival_time |-> IF entry.type = "arrival" THEN entry.time ELSE Null,
     delay |-> entry.delay,
     platform |-> entry.platform]

\* A station-board row with the columns delay_analysis.py lines 204-254 read.
ReadColumns ==
    {"board_type", "train_category", "train_number", "scheduled_departure",
     "scheduled_arrival", "departure_delay", "arrival_delay", "platform"}
RowAsRead(entry) ==
    [board_type |-> entry.type,
     train_category |-> entry.category,
     train_number |-> entry.number,
     scheduled_departure |-> IF entry.type = "departure" THEN entry.time ELSE Null,
     scheduled_arrival |-> IF entry.type = "arrival" THEN entry.time ELSE Null,
     departure_delay |-> IF entry.type = "departure" THEN entry.delay ELSE Null,
     arrival_delay |-> IF entry.type = "arrival" THEN entry.delay ELSE Null,
     platform |-> entry.platform]

BoardSchemas == {"written", "as_read"}
LoadStationData(entries, schema) ==
    [columns |-> IF schema = "written" THEN WrittenColumns ELSE ReadColumns,
     rows |-> [n \in 1..Len(entries) |->
                 IF schema = "written" THEN ProcessStationboardEntry(entries[n])
                 ELSE RowAsRead(entries[n])]]

\* The boards of the origin and of the destination the analysis is run on.
FromBoards ==
    { <<>>,
      <<Stop("departure", "IC", "1", 600, 5, "7")>>,
      <<Stop("departure", "IC", "1", 605, 1, "8"),
        Stop("departure", "IC", "1", 600, 5, "7")>>,
      <<Stop("arrival", "IC", "1", 600, 5, "7")>> }
ToBoards ==
    { <<>>,
      <<Stop("arrival", "IC", "1", 700, 4, "3")>>,
      <<Stop("arrival", "IR", "2", 705, 0, "2"),
        Stop("arrival", "IR", "2", 700, 6, "1")>>,
      <<Stop("departure", "IR", "2", 700, 6, "1")>> }

\* ------------------------------------------------------- parse_duration
\* A duration string is a sequence of characters; None is Null.

\* str.split(sep) for a one-character separator.
RECURSIVE SplitFrom(_, _, _)
SplitFrom(s, sep, part) ==
    IF s = <<>> THEN <<part>>
    ELSE IF Head(s) = sep THEN <<part>> \o SplitFrom(Tail(s), sep, <<>>)
    ELSE SplitFrom(Tail(s), sep, Append(part, Head(s)))
Split(s, sep) == SplitFrom(s, sep, <<>>)

\* 'd' in duration_str.
Contains(s, c) == \E i \in 1..Len(s) : s[i] = c

\* round(num / den) of Python 3: to the nearest integer, a half to the even
\* one.  \div rounds down and % is never negative.
Round(num, den) ==
    LET low == num \div den
        rest == num % den
    IN  IF 2 * rest < den THEN low
        ELSE IF 2 * rest > den THEN low + 1
        ELSE IF low % 2 = 0 THEN low ELSE low + 1

\* int(num / den): the quotient cut off towards zero.
Truncate(num, den) == IF num >= 0 THEN num \div den ELSE 0 - ((0 - num) \div den)

\* connections.py lines 113-143.  Every ValueError (wrong number of parts
\* when unpacking, a part int() rejects) is caught and gives None.
ParseDuration(duration_str) ==
    IF duration_str = Null THEN Null
    ELSE
    LET has_days == Contains(duration_str, "d")
        split_d == Split(duration_str, "d")
        days_ok == ~has_days \/ (Len(split_d) = 2 /\ ParseInt(split_d[1]).ok)
        days == IF has_days THEN ParseInt(split_d[1]).value ELSE 0
        time_part == IF has_days THEN split_d[2] ELSE duration_str
        hms == Split(time_part, ":")
        hms_ok == Len(hms) = 3 /\ \A i \in 1..3 : ParseInt(hms[i]).ok
        hours == ParseInt(hms[1]).value
        minutes == ParseInt(hms[2]).value
        seconds == ParseInt(hms[3]).value
    IN  IF ~days_ok THEN Null
        ELSE IF ~hms_ok THEN Null
        ELSE <<Round(((days * 24 * 60) + (hours * 60) + minutes) * 60 + seconds, 60)>>

\* Duration strings: an optional day part, then colon-separated parts.
Join(a, b, c) == a \o <<":">> \o b \o <<":">> \o c
DayParts ==
    { <<>>, <<"0", "1", "d">>, <<"1", "d", "2", "d">>, <<"x", "d">> }
HourParts == { <<"0", "0">>, <<"0", "2">>, <<"-", "1">>, <<"a", "b">> }
MinuteParts == { <<"4", "5">>, <<"3", "0">>, <<"0", "1">> }
SecondParts == { <<"0", "0">>, <<"3", "0">>, <<"5", "0">> }
TimeParts ==
    { Join(h, m, s) : h \in HourParts, m \in MinuteParts, s \in SecondParts }
    \cup { <<"g", "a", "r", "b", "a", "g", "e">>,
           <<"4", "5", ":", "0", "0">>,
           <<"0", "0", ":", "4", "5", ":", "0", "0", ":", "0", "0">> }
DurationStrings == { d \o t : d \in DayParts, t \in TimeParts } \cup { Null }

\* One call of parse_duration.
ParseDurationCall(duration_str) ==
    /\ normalized' = [fn |-> "parse_duration", duration_str |-> duration_str,
                      returned |-> ParseDuration(duration_str)]
    /\ UNCHANGED <<client, collect, analysis>>

\* ----------------------------------------------- normalizing a connection
\* A JSON value is Null (null), a number <<n>>, a text <<"...">> or an object
\* <<dict>>, where dict is a function from the keys present to their values.
\* An ISO date-time string is <<[wall, offset]>>: its wall-clock time in
\* seconds and its UTC offset; BadIso is a string that
\* datetime.fromisoformat rejects.  A Unix timestamp is <<seconds>>.  A
\* duration string is its sequence of characters.
Object(dict) == <<dict>>
EmptyObject == Object(EmptyMap)
Iso(wall, offset) == <<[wall |-> wall, offset |-> offset]>>
BadIso == <<[bad |-> TRUE]>>
IsoOk(str) == str # Null /\ "wall" \in DOMAIN str[1]

\* connections.py lines 34-48: the default when obj is None or has no such
\* key; a key that is present with the value null gives None.
SafeGet(obj, key, default) ==
    IF obj = Null THEN default
    ELSE IF key \in DOMAIN obj[1] THEN obj[1][key] ELSE default

\* The time zone of the machine the collector runs on, as its UTC offset.
LocalOffsets == {0, 3600}

\* connections.py lines 71-90: datetime.fromtimestamp(timestamp) is the
\* local wall-clock time of the instant; here in seconds.
TimestampToTimeFormat(timestamp, local) ==
    IF timestamp = Null THEN Null ELSE <<(timestamp[1] + local) % SecondsPerDay>>

\* connections.py lines 93-110: the wall-clock time of the string, or None.
ParseIsoDatetime(str) == IF IsoOk(str) THEN <<str[1].wall>> ELSE Null

\* connections.py lines 146-187.  actual_time is the naive local time of the
\* timestamp, given the tzinfo of the scheduled time by replace() (or the
\* scheduled time is made naive), so the difference is one of wall clocks.
CalculateDelayFromTimestamp(scheduled_time_str, timestamp, local) ==
    IF scheduled_time_str = Null \/ timestamp = Null THEN Null
    ELSE IF ~IsoOk(scheduled_time_str) THEN Null
    ELSE <<Round((timestamp[1] + local) - scheduled_time_str[1].wall, 60)>>

\* Mutant: a null 'from' or 'to' raises as well.
ProcessConnectionRaises_OnNull(connection) ==
    \/ SafeGet(connection, "from", EmptyObject) = Null
    \/ SafeGet(connection, "to", EmptyObject) = Null

\* connections.py lines 34-48 and 201-213: obj.get raises AttributeError,
\* which nothing catches, when 'from' or 'to' is a text instead of an object.
Text(s) == <<[text |-> s]>>
IsText(value) == value # Null /\ "text" \in DOMAIN value[1]
ProcessConnectionRaises(connection) ==
    \/ IsText(SafeGet(connection, "from", EmptyObject))
    \/ IsText(SafeGet(connection, "to", EmptyObject))

\* connections.py lines 200-289: the fields process_connection derives from
\* 'from', 'to' and 'duration'.  Dates are left out; a time is the seconds
\* of the wall clock.
ProcessConnectionFields(connection, local) ==
    LET from_data == SafeGet(connection, "from", EmptyObject)
        to_data == SafeGet(connection, "to", EmptyObject)
        from_station == SafeGet(from_data, "station", EmptyObject)
        to_station == SafeGet(to_data, "station", EmptyObject)
        departure_str == SafeGet(from_data, "departure", Null)
        arrival_str == SafeGet(to_data, "arrival", Null)
        departure_timestamp == SafeGet(from_data, "departureTimestamp", Null)
        arrival_timestamp == SafeGet(to_data, "arrivalTimestamp", Null)
        departure_dt == ParseIsoDatetime(departure_str)
        arrival_dt == ParseIsoDatetime(arrival_str)
        departure_ts_time == TimestampToTimeFormat(departure_timestamp, local)
        arrival_ts_time == TimestampToTimeFormat(arrival_timestamp, local)
        departure_time == IF departure_ts_time = Null THEN departure_dt
                          ELSE departure_ts_time
        arrival_time == IF arrival_ts_time = Null THEN arrival_dt ELSE arrival_ts_time
        api_departure_delay == SafeGet(from_data, "delay", Null)
        api_arrival_delay == SafeGet(to_data, "delay", Null)
        departure_delay ==
            IF api_departure_delay = Null /\ departure_timestamp # Null
                                          /\ departure_str # Null
            THEN CalculateDelayFromTimestamp(departure_str, departure_timestamp, local)
            ELSE api_departure_delay
        arrival_delay ==
            IF api_arrival_delay = Null /\ arrival_timestamp # Null /\ arrival_str # Null
            THEN CalculateDelayFromTimestamp(arrival_str, arrival_timestamp, local)
            ELSE api_arrival_delay
        travel_delay == IF departure_delay # Null /\ arrival_delay # Null
                        THEN <<arrival_delay[1] - departure_delay[1]>> ELSE Null
        duration_str == SafeGet(connection, "duration", Null)
    IN  [from_station_id |-> SafeGet(from_station, "id", <<"">>),
         from_station_name |-> SafeGet(from_station, "name", <<"">>),
         to_station_id |-> SafeGet(to_station, "id", <<"">>),
         to_station_name |-> SafeGet(to_station, "name", <<"">>),
         departure_date |-> IF departure_dt # Null THEN <<"date">> ELSE Null,
         arrival_date |-> IF arrival_dt # Null THEN <<"date">> ELSE Null,
         departure_time |-> departure_time,
         arrival_time |-> arrival_time,
         departure_timestamp |-> departure_time,
         arrival_timestamp |-> arrival_time,
         duration_minutes |-> ParseDuration(duration_str),
         duration_str |-> duration_str,
         departure_delay |-> departure_delay,
         arrival_delay |-> arrival_delay,
         travel_delay |-> travel_delay,
         departure_platform |-> SafeGet(from_data, "platform", Null),
         arrival_platform |-> SafeGet(to_data, "platform", Null)]

\* station_board.py lines 165-242, for an entry without passList: the delay
\* of the API, else the prognosis minus the scheduled time of the arrival,
\* else of the departure, in minutes cut off by int().  A string that
\* fromisoformat rejects leaves the delay None.
StationboardDelay(entry) ==
    LET stop == SafeGet(entry, "stop", EmptyObject)
        departure_str == SafeGet(stop, "departure", Null)
        arrival_str == SafeGet(stop, "arrival", Null)
        delay == SafeGet(stop, "delay", Null)
        prognosis == SafeGet(stop, "prognosis", EmptyObject)
        prognosis_departure == SafeGet(prognosis, "departure", Null)
        prognosis_arrival == SafeGet(prognosis, "arrival", Null)
        Minutes(scheduled, actual) ==
            IF IsoOk(scheduled) /\ IsoOk(actual)
            THEN <<Truncate((actual[1].wall - actual[1].offset)
                              - (scheduled[1].wall - scheduled[1].offset), 60)>>
            ELSE Null
    IN  IF delay = Null /\ arrival_str # Null /\ prognosis_arrival # Null
        THEN Minutes(arrival_str, prognosis_arrival)
        ELSE IF delay = Null /\ departure_str # Null /\ prognosis_departure # Null
        THEN Minutes(departure_str, prognosis_departure)
        ELSE delay

\* ---------------------------------------------------- normalizer inputs
\* Scheduled times are 10:00:00 at UTC+1; the actual time is later by one of
\* Lateness seconds (earlier when negative).
Scheduled == 36000
ZoneOffset == 3600
Lateness == {0, 50, 90, 150, -90}
IsoStrings == { Null, Iso(Scheduled, ZoneOffset), BadIso }
Timestamps == { Null } \cup { <<Scheduled - ZoneOffset + late>> : late \in Lateness }
ApiDelays == { Null, <<4>> }
ZurichHB == Object([id |-> <<"8503000">>, name |-> <<"Zuerich HB">>])

FromSides ==
    { Object([station |-> ZurichHB, departure |-> Iso(Scheduled - 3600, ZoneOffset),
              departureTimestamp |-> <<Scheduled - 3600 - ZoneOffset + 60>>,
              delay |-> d, platform |-> <<"7">>]) : d \in {Null, <<2>>} }
ToSides ==
    { Object([station |-> ZurichHB, arrival |-> a, arrivalTimestamp |-> t,
              delay |-> d, platform |-> <<"3">>]) :
         a \in IsoStrings, t \in Timestamps, d \in ApiDelays }
Duration45 == <<"0", "0", ":", "4", "5", ":", "0", "0">>
Connections ==
    { [from |-> f, to |-> t, duration |-> Duration45] :
         f \in FromSides, t \in ToSides \cup { Null, Text("unknown") } }
    \cup { [from |-> f, duration |-> Duration45] : f \in FromSides }

StationboardEntries ==
    { Object([stop |-> Object([arrival |-> a,
                               departure |-> dep[1],
                               delay |-> d,
                               prognosis |-> Object([arrival |-> p,
                                                     departure |-> dep[2]])])]) :
        a \in IsoStrings,
        p \in { Null } \cup { Iso(Scheduled + late, ZoneOffset) : late \in Lateness },
        dep \in { <<Null, Null>>,
                  <<Iso(Scheduled + 300, ZoneOffset), Iso(Scheduled + 300 + 110, ZoneOffset)>> },
        d \in ApiDelays }

\* One call of process_connection on a machine of the given time zone.
ProcessConnectionCall(connection, local) ==
    /\ normalized' =
          IF ProcessConnectionRaises(Object(connection))
          THEN [fn |-> "process_connection", connection |-> connection,
                local |-> local, raised |-> TRUE]
          ELSE [fn |-> "process_connection", connection |-> connection,
                local |-> local, raised |-> FALSE,
                returned |-> ProcessConnectionFields(Object(connection), local)]
    /\ UNCHANGED <<client, collect, analysis>>

\* One call of process_stationboard_entry, reduced to the delay it writes.
ProcessStationboardEntryCall(entry) ==
    /\ normalized' = [fn |-> "process_stationboard_entry", entry |-> entry,
                      returned |-> [delay |-> StationboardDelay(entry)]]
    /\ UNCHANGED <<client, collect, analysis>>

\* The normalizer functions, called on any of the inputs in any order.
NextNormalize ==
    \/ \E duration_str \in DurationStrings : ParseDurationCall(duration_str)
    \/ \E connection \in Connections, local \in LocalOffsets :
          ProcessConnectionCall(connection, local)
    \/ \E entry \in StationboardEntries : ProcessStationboardEntryCall(entry)

SpecNormalize == Init /\ [][NextNormalize]_vars

\* ------------------------------------------------------ reconciliation
\* Truth value of a text cell: None and '' are false, NaN is true.
Truthy(text) == text # "None" /\ text # ""

\* Comparison of a column with a value: NaN equals nothing.
CellEquals(a, b) == a # "NaN" /\ b # "NaN" /\ a = b

\* Series.get(column): None when the row has no such column.
Cell(row, column) == IF column \in DOMAIN row THEN row[column] ELSE Null

\* delay_analysis.py lines 195-198: the index the while loop stops at.
RECURSIVE LastSectionIdx(_, _)
LastSectionIdx(sections, i) ==
    IF i + 1 \in DOMAIN sections THEN LastSectionIdx(sections, i + 1) ELSE i

\* enhanced.get(f'section_{i}_category') and ..._number.
SectionOf(sections, i) == IF i \in DOMAIN sections THEN sections[i] ELSE NoLeg

\* abs(pd.to_datetime(scheduled) - conn_time): NaT when either is missing.
TimeDiff(scheduled, conn_time) ==
    IF scheduled = Null \/ conn_time = Null THEN Null
    ELSE IF scheduled[1] >= conn_time[1] THEN <<scheduled[1] - conn_time[1]>>
         ELSE <<conn_time[1] - scheduled[1]>>

\* Mutant: no difference sorts before another, the candidates keep the
\* order of the file.
SortsBefore_Never(a, b) == FALSE

\* Order of sort_values: smaller differences first, NaT last.
SortsBefore(a, b) == a # Null /\ (b = Null \/ a[1] < b[1])

RECURSIVE InsertByTimeDiff(_, _)
InsertByTimeDiff(x, sorted) ==
    IF sorted = <<>> THEN <<x>>
    ELSE IF ~SortsBefore(Head(sorted).time_diff, x.time_diff)
         THEN <<x>> \o sorted
         ELSE <<Head(sorted)>> \o InsertByTimeDiff(x, Tail(sorted))

\* sort_values('time_diff'); rows of equal difference keep their order, as
\* the sort does for the few rows of one train.
RECURSIVE SortValues(_)
SortValues(rows) ==
    IF rows = <<>> THEN <<>>
    ELSE InsertByTimeDiff(Head(rows), SortValues(Tail(rows)))

\* delay_analysis.py lines 204-223 and 226-245: one side of the matching.
\* leg is the train looked for, datetime_column the connection's column with
\* its scheduled time, scheduled_column the board's.  A connection cell read
\* back from CSV is a nonempty string or NaN, so it is true whenever the
\* column exists; a board without scheduled_column raises KeyError.
MatchSide(fields, leg, df, type, datetime_column, scheduled_column) ==
    LET OfType(r) == r.board_type = type
        side == SelectSeq(df.rows, OfType)
        SameTrain(r) == /\ CellEquals(r.train_category, leg.category)
                        /\ CellEquals(r.train_number, leg.number)
        matches == IF Len(side) > 0 /\ Truthy(leg.category) /\ Truthy(leg.number)
                   THEN SelectSeq(side, SameTrain) ELSE <<>>
        timed == [n \in 1..Len(matches) |->
                    [row |-> matches[n],
                     time_diff |-> TimeDiff(Cell(matches[n], scheduled_column),
                                            fields[datetime_column])]]
    IN  IF Len(matches) = 0
        THEN [threw |-> FALSE, matched |-> <<>>, candidates |-> matches, by_time |-> FALSE]
        ELSE IF datetime_column \in DOMAIN fields
        THEN IF scheduled_column \notin df.columns
             THEN [threw |-> TRUE, matched |-> <<>>, candidates |-> matches, by_time |-> TRUE]
             ELSE [threw |-> FALSE, matched |-> <<SortValues(timed)[1].row>>,
                   candidates |-> matches, by_time |-> TRUE]
        ELSE [threw |-> FALSE, matched |-> <<matches[1]>>, candidates |-> matches,
              by_time |-> FALSE]

\* Mutant: a missing delay counts as 0 in the difference.
DelayDiff_NullAsZero(key, sb_key, added, conn_delay) ==
    IF sb_key \in DOMAIN added
    THEN (key :> <<(IF added[sb_key] # Null THEN added[sb_key][1] ELSE 0)
                   - (IF conn_delay # Null THEN conn_delay[1] ELSE 0)>>)
    ELSE EmptyMap

\* delay_analysis.py lines 256-267: a difference of delays, when both exist.
DelayDiff(key, sb_key, added, conn_delay) ==
    IF sb_key \in DOMAIN added /\ conn_delay # Null /\ added[sb_key] # Null
    THEN (key :> <<added[sb_key][1] - conn_delay[1]>>)
    ELSE EmptyMap

\* Mutant: the departure delay is not subtracted.
OrZero_Zero(delay) == 0

\* delay_analysis.py lines 270-272.
OrZero(delay) == IF delay # Null THEN delay[1] ELSE 0

\* delay_analysis.py lines 173-274, match_connection_with_station_board: the
\* keys it adds to the connection record, or the exception it raises.
MatchConnectionWithStationBoard(connection_row, from_df, to_df) ==
    LET fields == connection_row.fields
        sections == connection_row.sections
        first == SectionOf(sections, 1)
        last == SectionOf(sections, LastSectionIdx(sections, 1))
        dep == MatchSide(fields, first, from_df, "departure",
                         "departure_datetime", "scheduled_departure")
        arr == MatchSide(fields, last, to_df, "arrival",
                         "arrival_datetime", "scheduled_arrival")
        sb_dep == IF dep.matched # <<>>
                  THEN [sb_departure_delay |-> Cell(dep.matched[1], "departure_delay"),
                        sb_departure_platform |-> Cell(dep.matched[1], "platform")]
                  ELSE EmptyMap
        sb_arr == IF arr.matched # <<>>
                  THEN [sb_arrival_delay |-> Cell(arr.matched[1], "arrival_delay"),
                        sb_arrival_platform |-> Cell(arr.matched[1], "platform")]
                  ELSE EmptyMap
        added == sb_dep @@ sb_arr
                   @@ DelayDiff("departure_delay_diff", "sb_departure_delay", sb_dep,
                                fields.departure_delay)
                   @@ DelayDiff("arrival_delay_diff", "sb_arrival_delay", sb_arr,
                                fields.arrival_delay)
                   @@ [journey_added_delay |->
                          <<OrZero(fields.arrival_delay) - OrZero(fields.departure_delay)>>]
    IN  [threw |-> dep.threw \/ arr.threw,
         enhanced |-> [row |-> connection_row, added |-> added],
         first_leg |-> first,
         last_leg |-> last,
         departure |-> dep,
         arrival |-> arr]

\* Mutant: a record whose matching raised is appended as well.
AppendEnhanced_KeepsThrown(enhanced, outcome) == Append(enhanced, outcome.enhanced)

\* Mutant: only records matched at both ends are kept.
AppendEnhanced_OnlyMatched(enhanced, outcome) ==
    IF outcome.departure.matched # <<>> /\ outcome.arrival.matched # <<>>
    THEN Append(enhanced, outcome.enhanced) ELSE enhanced

\* delay_analysis.py lines 342-349: the record is appended unless the
\* matching raised.
AppendEnhanced(enhanced, outcome) ==
    IF outcome.threw THEN enhanced ELSE Append(enhanced, outcome.enhanced)

\* delay_analysis.py lines 297-336, analyze_connections_for_day up to its
\* loop: the files of the day are found and loaded; without connection rows
\* or without rows of either board the day is skipped.
LoadDay(raws, cschema, from_entries, to_entries, bschema) ==
    /\ recon = "idle"
    /\ batch' = raws
    /\ connection_df' =
          LoadConnectionData([n \in 1..Len(raws) |-> ConnectionRecord(raws[n], cschema)])
    /\ from_station_df' = LoadStationData(from_entries, bschema)
    /\ to_station_df' = LoadStationData(to_entries, bschema)
    /\ row_ix' = 1
    /\ enhanced_connections' = <<>>
    /\ outcomes' = <<>>
    /\ recon' = IF raws = <<>> \/ from_entries = <<>> \/ to_entries = <<>>
                THEN "skipped" ELSE "rows"
    /\ UNCHANGED <<client, collect, normalizer>>

\* delay_analysis.py lines 341-373: one turn of the loop, and after the last
\* row the enriched records are saved if there are any.
MatchRow ==
    /\ recon = "rows"
    /\ LET outcome == MatchConnectionWithStationBoard(connection_df[row_ix],
                                                      from_station_df, to_station_df)
           enhanced == AppendEnhanced(enhanced_connections, outcome)
       IN  /\ enhanced_connections' = enhanced
           /\ outcomes' = Append(outcomes, outcome)
           /\ IF row_ix < Len(connection_df)
              THEN row_ix' = row_ix + 1 /\ UNCHANGED recon
              ELSE /\ row_ix' = row_ix
                   /\ recon' = IF enhanced # <<>> THEN "saved" ELSE "nothing"
    /\ UNCHANGED <<batch, connection_df, from_station_df, to_station_df>>
    /\ UNCHANGED <<client, collect, normalizer>>

\* The files of one day: up to MaxBatch connections.
RECURSIVE Batches(_)
Batches(n) ==
    IF n = 0 THEN {<<>>}
    ELSE Batches(n - 1) \cup
         { Append(b, r) : b \in {x \in Batches(n - 1) : Len(x) = n - 1},
                          r \in RawConnections }

\* One analysis of one day and station pair.
NextMatch ==
    \/ \E raws \in Batches(MaxBatch), cschema \in ConnectionSchemas,
          from_entries \in FromBoards, to_entries \in ToBoards,
          bschema \in BoardSchemas :
             LoadDay(raws, cschema, from_entries, to_entries, bschema)
    \/ MatchRow

SpecMatch == Init /\ [][NextMatch]_vars

\* ============================================================== properties
CooldownActive(e, t) == RATE_LIMIT_EXCEEDED[e] /\ ~(t > reset_time)

\* The endpoint's counter as the first rate check at time t sees it.
CounterAt(e, t) == IF last_reset < DateOf(t) THEN 0 ELSE REQUEST_COUNTER[e]

QuotaExhausted(e, t) ==
    e \in DOMAIN MAX_REQUESTS_PER_DAY /\ CounterAt(e, t) >= MAX_REQUESTS_PER_DAY[e]

\* C1: for an endpoint with daily limit L and no active cooldown, exactly L
\* uncached calls that succeed are allowed within one day: between calls the
\* rate check lets a request pass exactly while fewer than L calls on the
\* endpoint have succeeded since the last reset, and a denied call has issued
\* no HTTP request and returns an error.
C1_QuotaCeiling ==
    pc # "loop" =>
        /\ \A e \in DOMAIN MAX_REQUESTS_PER_DAY :
              ~CooldownActive(e, now) =>
                 (CheckRateLimit(e, CountersAfterReset(REQUEST_COUNTER, last_reset, now),
                                 RATE_LIMIT_EXCEEDED, reset_time, now)
                  <=> (IF last_reset < DateOf(now) THEN 0 ELSE succeeded[e])
                         < MAX_REQUESTS_PER_DAY[e])
        /\ served = "denied" => gets = 0 /\ IsError(result)

\* C2: the request counter of an endpoint with a daily limit never exceeds
\* the limit, whatever the server answers.
C2_CounterWithinLimit ==
    \A e \in DOMAIN MAX_REQUESTS_PER_DAY : REQUEST_COUNTER[e] <= MAX_REQUESTS_PER_DAY[e]

\* C3: once a 429 armed the cooldown of an endpoint with resume time T, no
\* HTTP request is issued for that endpoint before T, whatever happens on
\* the other endpoints in between.
C3_NoRequestBeforeResume ==
    last_get.endpoint # "none" => last_get.at >= last_get.armed

\* C4: one call issues at most MAX_RETRIES + 1 HTTP GETs, whatever the
\* server answers.
C4_AttemptsBounded == gets <= MAX_RETRIES + 1

\* C5: when every attempt of a call received a 429 without Retry-After, the
\* first backoff sleep is INITIAL_BACKOFF, each following one is twice the
\* previous one capped at MAX_BACKOFF, there are at most MAX_RETRIES of them,
\* and a call that exhausts its retries has slept 5, 10 and 20 seconds.
C5_BackoffGrowth ==
    plain429 =>
        /\ Len(sleeps) <= MAX_RETRIES
        /\ \A i \in 1..Len(sleeps) :
              sleeps[i] = IF i = 1 THEN INITIAL_BACKOFF
                          ELSE Min(2 * sleeps[i - 1], MAX_BACKOFF)
        /\ served = "limited" => sleeps = <<5, 10, 20>>

C5_Witness == plain429 /\ served = "limited" /\ Len(sleeps) = MAX_RETRIES

\* C6.  The current call repeats, less than CACHE_EXPIRY seconds later, a
\* request that an earlier call fetched successfully.
RepeatsFetch ==
    LET k == <<endpoint_type, DictOf(params)>>
    IN  /\ calls >= 1
        /\ k \in DOMAIN fetched
        /\ fetched[k].at <= called_at
        /\ called_at - fetched[k].at < CACHE_EXPIRY

\* C6 as stated: the two calls cause exactly one HTTP request in total and
\* the second returns the payload the first stored.
C6_OneRequestInTotal ==
    RepeatsFetch =>
        LET f == fetched[<<endpoint_type, DictOf(params)>>]
        IN  /\ f.gets + gets = 1
            /\ result = PayloadResult(f.data)

\* C6 as amended: the second call issues no HTTP request and returns the
\* payload the first stored, whatever the order of the parameters; the only
\* HTTP requests of the two calls are the attempts of the first.
C6_SecondCallServedFromCache ==
    RepeatsFetch =>
        LET f == fetched[<<endpoint_type, DictOf(params)>>]
        IN  /\ served = "cache"
            /\ gets = 0
            /\ result = PayloadResult(f.data)
            /\ f.gets >= 1

C6_Witness ==
    /\ RepeatsFetch
    /\ served = "cache"
    /\ fetched[<<endpoint_type, DictOf(params)>>].params # params

\* The current call found an entry older than CACHE_EXPIRY for its request.
FoundStale == found_age > CACHE_EXPIRY

\* C7 as stated: a call that finds an entry older than CACHE_EXPIRY does not
\* return it: it makes a fresh HTTP request, and a successful payload and
\* its fetch time overwrite the old entry.
C7_StaleEntryAlwaysRefetched ==
    FoundStale =>
        /\ served # "cache"
        /\ pc = "returned" => gets >= 1

\* C7 as amended: a call that finds an entry older than CACHE_EXPIRY never
\* returns it; it is handled as a miss, so unless the rate check denies the
\* call an HTTP request is made before it returns, and a successful payload
\* and its fetch time overwrite the old entry.
C7_StaleEntryNotServed ==
    FoundStale =>
        LET k == CHOOSE x \in DOMAIN API_CACHE : SameRequest(x, endpoint_type, params)
        IN  /\ served # "cache"
            /\ pc = "returned" /\ served # "denied" => gets >= 1
            /\ served = "network" =>
                  /\ API_CACHE[k] = [data |-> result.data, timestamp |-> now]
                  /\ now - API_CACHE[k].timestamp < CACHE_EXPIRY
                  /\ now > called_at

C7_Witness == FoundStale /\ served = "network" /\ gets > 1

\* A step that starts a call for which the cache holds a fresh entry k, or none.
StartsCall == calls' = calls + 1
FreshFor(k, e, p, t) ==
    /\ k \in DOMAIN API_CACHE
    /\ SameRequest(k, e, p)
    /\ t - API_CACHE[k].timestamp < CACHE_EXPIRY

\* C8: a call that finds a fresh cache entry returns the cached payload, also
\* when the quota is exhausted or the cooldown is active, issues no HTTP
\* request and leaves the counters, last_reset, the cooldown flags, the reset
\* time and the cache unchanged.
C8_CacheHitChangesNothing ==
    [][ \A k \in DOMAIN API_CACHE :
          StartsCall /\ FreshFor(k, endpoint_type', params', now')
             => /\ pc' = "returned"
                /\ result' = PayloadResult(API_CACHE[k].data)
                /\ gets' = 0
                /\ UNCHANGED <<REQUEST_COUNTER, last_reset, RATE_LIMIT_EXCEEDED,
                               reset_time, API_CACHE>> ]_vars

C8_Witness ==
    /\ served = "cache"
    /\ found_age >= 0 /\ found_age < CACHE_EXPIRY
    /\ QuotaExhausted(endpoint_type, now)
    /\ CooldownActive(endpoint_type, now)

\* A step that starts a call which the cache cannot answer and which the
\* rate check must deny.
StartsDeniedCall ==
    /\ StartsCall
    /\ \A k \in DOMAIN API_CACHE : ~FreshFor(k, endpoint_type', params', now')
    /\ \/ CooldownActive(endpoint_type', now')
       \/ QuotaExhausted(endpoint_type', now')

DeniedAtOnce ==
    /\ pc' = "returned"
    /\ IsError(result')
    /\ served' = "denied"
    /\ gets' = 0
    /\ sleeps' = <<>>
    /\ now' = called_at'
    /\ API_CACHE' = API_CACHE

\* C9 as stated: a denied call returns an error at once, without HTTP
\* request or sleep, and leaves the endpoint's counter and the cache unchanged.
C9_DenialChangesNothing ==
    [][ StartsDeniedCall
          => /\ DeniedAtOnce
             /\ REQUEST_COUNTER'[endpoint_type'] = REQUEST_COUNTER[endpoint_type'] ]_vars

\* C9 as amended: the same, except that the rate check's daily rollover may
\* first have reset the endpoint's counter to 0.
C9_DenialOnlyRollsOver ==
    [][ StartsDeniedCall
          => /\ DeniedAtOnce
             /\ REQUEST_COUNTER'[endpoint_type'] =
                   IF last_reset < DateOf(now') THEN 0
                   ELSE REQUEST_COUNTER[endpoint_type'] ]_vars

C9_Witness ==
    /\ served = "denied"
    /\ pc = "returned"
    /\ CooldownActive(endpoint_type, now)
    /\ gets = 0

\* C10: _make_request never raises an exception to its caller, whatever the
\* server answers.
C10_NeverRaises == pc # "raised"

\* C11: whenever _make_request ends in an error (rate-limit denial, retries
\* exhausted on 429, retries exhausted on a network or HTTP error) it returns
\* an error result, and the accessor of the endpoint (get_station_info,
\* get_station_board, get_connections) returns the empty list to its caller.
C11_ErrorsBecomeEmptyList ==
    served \in {"denied", "limited", "failed"} =>
        /\ pc = "returned"
        /\ IsError(result)
        /\ FacadeReturn(endpoint_type, result) = <<>>

C11_Witness ==
    /\ served = "failed"
    /\ gets >= MAX_RETRIES + 1
    /\ FacadeReturn(endpoint_type, result) = <<>>

\* A step in which _check_rate_limit runs: a call the cache does not answer.
RunsRateCheck == StartsCall /\ served' # "cache"

\* C12: the first rate check of a new day sets every counter to 0 and
\* last_reset to today before the quota comparison, so that an endpoint
\* whose quota was exhausted the day before is allowed; a later check on the
\* same day resets nothing.
C12_RolloverAllows ==
    [][ RunsRateCheck =>
          IF last_reset < DateOf(now')
          THEN /\ REQUEST_COUNTER' = [e \in Endpoints |-> 0]
               /\ last_reset' = DateOf(now')
               /\ (/\ endpoint_type' \in DOMAIN MAX_REQUESTS_PER_DAY
                   /\ REQUEST_COUNTER[endpoint_type'] >= MAX_REQUESTS_PER_DAY[endpoint_type'])
                     => pc' = "loop"
          ELSE /\ REQUEST_COUNTER' = REQUEST_COUNTER
               /\ last_reset' = last_reset ]_vars

\* C13: every HTTP request of station-board collection goes through the
\* rate tracker: none is sent while the stationboard quota is exhausted or
\* the stationboard cooldown is active, and every successful one is counted
\* in the stationboard request counter.
C13_CollectionUsesTracker ==
    /\ direct.denied = 0
    /\ REQUEST_COUNTER["stationboard"] = succeeded["stationboard"] + direct.ok

\* The rows of the written files that were requested for station s and date d.
StoredFor(f, s, d) ==
    { i \in 1..Len(files[f]) :
         files[f][i].station_id = s.id /\ files[f][i].request_date = DateStr(d) }

\* C19: after collect_monthly_data, the entries requested for a target
\* station and a date of the month are in a file that find_station_files
\* returns for that station and date.
C19_CollectedDayIsFound ==
    collecting = "done" =>
        \A n \in 1..Len(TARGET_STATIONS), d \in period.start..period.end :
            LET s == TARGET_STATIONS[n]
            IN  (\E f \in DOMAIN files : StoredFor(f, s, d) # {})
                   => \E f \in FindStationFiles(s.name, d) : StoredFor(f, s, d) # {}

\* C20: for every station and time slot collected, the stored rows include
\* the departure board as well as the arrival board.
C20_BothBoardTypesStored ==
    collecting = "done" =>
        \A f \in DOMAIN files : \A i \in 1..Len(files[f]) :
            \A type \in {"departure", "arrival"} :
                \E j \in 1..Len(files[f]) :
                    /\ files[f][j].board_type = type
                    /\ files[f][j].station_id = files[f][i].station_id
                    /\ files[f][j].request_date = files[f][i].request_date
                    /\ files[f][j].request_time = files[f][i].request_time

\* The analysis of the day has run its loop up to here or to its end.
InLoop == recon \in {"rows", "saved", "nothing"}
Ended == recon \in {"saved", "nothing", "skipped"}
NotThrown(outcome) == ~outcome.threw
RowsDone == IF recon = "rows" THEN row_ix - 1 ELSE Len(connection_df)

\* C14 as stated: the output of analyze_connections_for_day holds exactly one
\* enriched record for every connection record of the day's file whose
\* matching did not throw; a record without a match is kept.
C14_EveryRecordKept ==
    Ended =>
        Len(enhanced_connections) =
            Len(batch) - Cardinality({n \in 1..Len(outcomes) : outcomes[n].threw})

\* C14 as amended: when the day is not skipped (the connection file and both
\* station-board files hold rows), the output holds, in order, exactly one
\* enriched record for every connection row whose matching did not throw,
\* and a side without a matching board entry adds no sb_* value to it.
C14_EveryMatchedRowKept ==
    InLoop =>
        /\ Len(outcomes) = RowsDone
        /\ \A n \in 1..Len(outcomes) : outcomes[n].enhanced.row = connection_df[n]
        /\ enhanced_connections =
              [n \in 1..Len(SelectSeq(outcomes, NotThrown)) |->
                  SelectSeq(outcomes, NotThrown)[n].enhanced]
        /\ \A n \in 1..Len(outcomes) :
              LET o == outcomes[n]
              IN  /\ o.departure.matched = <<>> =>
                        {"sb_departure_delay", "sb_departure_platform",
                         "departure_delay_diff"} \cap DOMAIN o.enhanced.added = {}
                  /\ o.arrival.matched = <<>> =>
                        {"sb_arrival_delay", "sb_arrival_platform",
                         "arrival_delay_diff"} \cap DOMAIN o.enhanced.added = {}

C14_Witness ==
    /\ recon = "saved"
    /\ Len(enhanced_connections) = Len(batch)
    /\ \E n \in 1..Len(outcomes) :
          /\ ~outcomes[n].threw
          /\ outcomes[n].departure.matched = <<>>
          /\ outcomes[n].arrival.matched = <<>>
    /\ \E n \in 1..Len(outcomes) : outcomes[n].departure.matched # <<>>

\* The rows of a board of the given type that carry the train of a leg.
CandidatesOf(df, type, leg) ==
    { n \in 1..Len(df.rows) :
         /\ df.rows[n].board_type = type
         /\ df.rows[n].train_category = leg.category
         /\ df.rows[n].train_number = leg.number }

Distance(a, b) == IF a >= b THEN a - b ELSE b - a

\* The matched row is a candidate whose scheduled time is nearest to t.
IsClosest(matched, df, type, leg, column, t) ==
    /\ matched # <<>>
    /\ \E n \in CandidatesOf(df, type, leg) : df.rows[n] = matched[1]
    /\ \A n \in CandidatesOf(df, type, leg) :
          Distance(matched[1][column][1], t) <= Distance(df.rows[n][column][1], t)

C16_BoundaryLegs ==
    \A n \in 1..Len(outcomes) :
        LET legs == Legs(batch[n].sections)
        IN  /\ outcomes[n].first_leg = legs[1]
            /\ outcomes[n].last_leg = legs[Len(legs)]

\* C17: with station-board rows as process_stationboard_entry writes them, a
\* match at the origin (destination) sets sb_departure_delay
\* (sb_arrival_delay) to the delay of the matched entry and the platform to
\* its platform; a connection delay of 3 and an entry delay of 5 give
\* departure_delay_diff = 2.
C17_DelayAndPlatformCopied ==
    \A n \in 1..Len(outcomes) :
        LET o == outcomes[n]
            added == o.enhanced.added
        IN  ~o.threw /\ from_station_df.columns = WrittenColumns =>
              /\ o.departure.matched # <<>> =>
                    /\ added["sb_departure_delay"] = o.departure.matched[1].delay
                    /\ added["sb_departure_platform"] = o.departure.matched[1].platform
                    /\ (/\ connection_df[n].fields.departure_delay = <<3>>
                        /\ o.departure.matched[1].delay = <<5>>)
                          => /\ "departure_delay_diff" \in DOMAIN added
                             /\ added["departure_delay_diff"] = <<2>>
              /\ o.arrival.matched # <<>> =>
                    /\ added["sb_arrival_delay"] = o.arrival.matched[1].delay
                    /\ added["sb_arrival_platform"] = o.arrival.matched[1].platform

\* C18: with connection records as process_connection writes them and
\* station-board rows as process_stationboard_entry writes them, when the
\* matched leg's train appears in several board entries the entry selected
\* is the closest in scheduled time to the connection's scheduled departure
\* or arrival; the first candidate is taken only when the connection has no
\* scheduled time.
C18_WrittenRecordsClosest ==
    \A n \in 1..Len(outcomes) :
        LET o == outcomes[n]
            f == connection_df[n].fields
        IN  (/\ ~o.threw
             /\ "departure_datetime" \notin DOMAIN f
             /\ from_station_df.columns = WrittenColumns) =>
              /\ (/\ f.departure_time # Null
                  /\ Cardinality(CandidatesOf(from_station_df, "departure", o.first_leg)) > 1)
                    => IsClosest(o.departure.matched, from_station_df, "departure",
                                 o.first_leg, "departure_time", f.departure_time[1])
              /\ (/\ f.arrival_time # Null
                  /\ Cardinality(CandidatesOf(to_station_df, "arrival", o.last_leg)) > 1)
                    => IsClosest(o.arrival.matched, to_station_df, "arrival",
                                 o.last_leg, "arrival_time", f.arrival_time[1])

\* The value of a key of an enriched record, null when the key is not set.
Added(o, key) == Cell(o.enhanced.added, key)

\* The difference sb - conn of two delays, null unless both are numbers.
DiffOf(sb, conn) == IF sb # Null /\ conn # Null THEN <<sb[1] - conn[1]>> ELSE Null

\* C21: in every enriched record departure_delay_diff is sb_departure_delay
\* minus departure_delay and arrival_delay_diff is sb_arrival_delay minus
\* arrival_delay, each set exactly when both of its operands are non-null
\* and null otherwise.
C21_DelayDiffs ==
    \A n \in 1..Len(outcomes) :
        LET o == outcomes[n]
            f == connection_df[n].fields
        IN  ~o.threw =>
              /\ Added(o, "departure_delay_diff") =
                    DiffOf(Added(o, "sb_departure_delay"), f.departure_delay)
              /\ Added(o, "arrival_delay_diff") =
                    DiffOf(Added(o, "sb_arrival_delay"), f.arrival_delay)
              /\ "departure_delay_diff" \in DOMAIN o.enhanced.added
                    <=> (Added(o, "sb_departure_delay") # Null /\ f.departure_delay # Null)
              /\ "arrival_delay_diff" \in DOMAIN o.enhanced.added
                    <=> (Added(o, "sb_arrival_delay") # Null /\ f.arrival_delay # Null)

\* C21 happens: one record has a departure difference of 5 - 3 and an
\* arrival difference left null although the arrival side matched an entry
\* with a delay, because the connection's arrival delay is null.
C21_Witness ==
    \E n \in 1..Len(outcomes) :
        LET o == outcomes[n]
        IN  /\ ~o.threw
            /\ Added(o, "sb_departure_delay") = <<5>>
            /\ connection_df[n].fields.departure_delay = <<3>>
            /\ Added(o, "departure_delay_diff") = <<2>>
            /\ Added(o, "sb_arrival_delay") # Null
            /\ connection_df[n].fields.arrival_delay = Null
            /\ "arrival_delay_diff" \notin DOMAIN o.enhanced.added

\* C22: in every enriched record journey_added_delay is arrival_delay minus
\* departure_delay with a null delay counted as 0 (departure null and
\* arrival 5 give 5, both null give 0); it is never null.
C22_JourneyAddedDelay ==
    \A n \in 1..Len(outcomes) :
        LET o == outcomes[n]
            f == connection_df[n].fields
            dep == IF f.departure_delay = Null THEN 0 ELSE f.departure_delay[1]
            arr == IF f.arrival_delay = Null THEN 0 ELSE f.arrival_delay[1]
        IN  ~o.threw =>
              /\ "journey_added_delay" \in DOMAIN o.enhanced.added
              /\ o.enhanced.added["journey_added_delay"] # Null
              /\ o.enhanced.added["journey_added_delay"] = <<arr - dep>>
              /\ (f.departure_delay = Null /\ f.arrival_delay = <<5>>)
                    => o.enhanced.added["journey_added_delay"] = <<5>>
              /\ (f.departure_delay = Null /\ f.arrival_delay = Null)
                    => o.enhanced.added["journey_added_delay"] = <<0>>

\* C22 happens: the output of one day holds a record with a null departure
\* delay and an arrival delay of 5, and a record with both delays null.
C22_Witness ==
    /\ recon = "saved"
    /\ \E n \in 1..Len(enhanced_connections) :
          /\ enhanced_connections[n].row.fields.departure_delay = Null
          /\ enhanced_connections[n].row.fields.arrival_delay = <<5>>
          /\ enhanced_connections[n].added["journey_added_delay"] = <<5>>
    /\ \E n \in 1..Len(enhanced_connections) :
          /\ enhanced_connections[n].row.fields.departure_delay = Null
          /\ enhanced_connections[n].row.fields.arrival_delay = Null
          /\ enhanced_connections[n].added["journey_added_delay"] = <<0>>

\* C23: in analyze_connections_for_day a connection record whose matching
\* throws is skipped and does not appear in the enriched output, every
\* record after it in the batch is still processed, and the records that did
\* not throw are all written.
C23_ThrowSkipsOnlyThatRecord ==
    InLoop =>
        /\ recon # "rows" => Len(outcomes) = Len(batch)
        /\ recon = "rows" => Len(outcomes) = row_ix - 1 /\ row_ix <= Len(batch)
        /\ \A n \in 1..Len(outcomes) :
              IF outcomes[n].threw
              THEN \A k \in 1..Len(enhanced_connections) :
                      enhanced_connections[k].row # connection_df[n]
              ELSE \E k \in 1..Len(enhanced_connections) :
                      enhanced_connections[k] = outcomes[n].enhanced
        /\ Len(enhanced_connections) =
              Cardinality({n \in 1..Len(outcomes) : ~outcomes[n].threw})
        /\ recon = "saved" => enhanced_connections # <<>>
        /\ recon = "nothing" => \A n \in 1..Len(outcomes) : outcomes[n].threw

\* C23 happens: the first record of a batch of two throws, the second is
\* processed and is the only record of the saved output.
C23_Witness ==
    /\ recon = "saved"
    /\ Len(batch) = 2
    /\ outcomes[1].threw
    /\ ~outcomes[2].threw
    /\ enhanced_connections = <<outcomes[2].enhanced>>

\* The outcome of matching the n-th connection of the batch when its record
\* is the only one of the day's file, against the same two boards.
SchemaOf(row) ==
    IF "departure_datetime" \in DOMAIN row.fields THEN "with_datetime" ELSE "written"
MatchedAlone(n) ==
    MatchConnectionWithStationBoard(
        LoadConnectionData(<<ConnectionRecord(batch[n], SchemaOf(connection_df[n]))>>)[1],
        from_station_df, to_station_df)

\* C24: the enriched record computed for a connection depends only on that
\* connection's own fields and on the two station-board record sets: in a
\* batch with other connection records it gets the same enrichment, or the
\* same exception, as in a batch of its own.
C24_RecordsIndependent ==
    \A n \in 1..Len(outcomes) :
        /\ outcomes[n].threw = MatchedAlone(n).threw
        /\ outcomes[n].enhanced.added = MatchedAlone(n).enhanced.added

\* A string of digits, and a duration string of the form [DDd]HH:MM:SS.
IsDigits(s) == s # <<>> /\ \A i \in 1..Len(s) : DigitValue(s[i]) >= 0
DayPartOf(s) == IF Contains(s, "d") THEN Split(s, "d")[1] ELSE <<"0">>
TimePartOf(s) ==
    IF Contains(s, "d") /\ Len(Split(s, "d")) = 2 THEN Split(s, "d")[2] ELSE s
WellFormedDuration(s) ==
    /\ Contains(s, "d") => Len(Split(s, "d")) = 2
    /\ IsDigits(DayPartOf(s))
    /\ Len(Split(TimePartOf(s), ":")) = 3
    /\ \A i \in 1..3 : IsDigits(Split(TimePartOf(s), ":")[i])
DurationSeconds(s) ==
    LET hms == Split(TimePartOf(s), ":")
    IN  ((DigitsValue(DayPartOf(s), 0) * 1440 + DigitsValue(hms[1], 0) * 60
            + DigitsValue(hms[2], 0)) * 60) + DigitsValue(hms[3], 0)

\* r is an integer nearest to num / den.
IsNearest(r, num, den) == 2 * (den * r - num) <= den /\ 2 * (num - den * r) <= den

\* C25: parse_duration maps a string of the form [DDd]HH:MM:SS to
\* days*1440 + hours*60 + minutes + seconds/60 rounded to an integer
\* ("01d02:30:00" gives 1590, "00:45:00" gives 45) and every malformed
\* string to null.
C25_ParseDuration ==
    normalized.fn = "parse_duration" =>
        LET s == normalized.duration_str
        IN  /\ s = <<"0", "1", "d", "0", "2", ":", "3", "0", ":", "0", "0">>
                  => normalized.returned = <<1590>>
            /\ s = <<"0", "0", ":", "4", "5", ":", "0", "0">>
                  => normalized.returned = <<45>>
            /\ IF s # Null /\ WellFormedDuration(s)
               THEN /\ normalized.returned # Null
                    /\ IsNearest(normalized.returned[1], DurationSeconds(s), 60)
               ELSE normalized.returned = Null

\* The true lateness in seconds of an actual instant given as a timestamp,
\* or as an ISO string, after a scheduled ISO string.
LateByTimestamp(timestamp, scheduled) ==
    timestamp[1] - (scheduled[1].wall - scheduled[1].offset)
LateByIso(actual, scheduled) ==
    (actual[1].wall - actual[1].offset) - (scheduled[1].wall - scheduled[1].offset)

\* C26, connection normalizer: without a delay from the API the arrival
\* delay is the timestamp minus the scheduled arrival in seconds, divided by
\* 60 and rounded to the nearest minute, and null when either is missing.
C26_ConnectionDelay ==
    (normalized.fn = "process_connection" /\ ~normalized.raised) =>
        LET to_data == SafeGet(Object(normalized.connection), "to", EmptyObject)
            arrival == SafeGet(to_data, "arrival", Null)
            timestamp == SafeGet(to_data, "arrivalTimestamp", Null)
            delay == normalized.returned.arrival_delay
        IN  SafeGet(to_data, "delay", Null) = Null =>
              /\ (arrival = Null \/ timestamp = Null) => delay = Null
              /\ (IsoOk(arrival) /\ timestamp # Null) =>
                    /\ delay # Null
                    /\ IsNearest(delay[1], LateByTimestamp(timestamp, arrival), 60)

\* C26, station-board normalizer: without a delay from the API the delay is
\* the prognosis minus the scheduled time (of the arrival, else of the
\* departure) in seconds, divided by 60 and rounded to the nearest minute,
\* and null when either is missing.
C26_StationboardDelay ==
    normalized.fn = "process_stationboard_entry" =>
        LET stop == SafeGet(normalized.entry, "stop", EmptyObject)
            prognosis == SafeGet(stop, "prognosis", EmptyObject)
            arrival == SafeGet(stop, "arrival", Null)
            actual_arrival == SafeGet(prognosis, "arrival", Null)
            departure == SafeGet(stop, "departure", Null)
            actual_departure == SafeGet(prognosis, "departure", Null)
            by_arrival == arrival # Null /\ actual_arrival # Null
            by_departure == ~by_arrival /\ departure # Null /\ actual_departure # Null
            delay == normalized.returned.delay
        IN  SafeGet(stop, "delay", Null) = Null =>
              /\ (~by_arrival /\ ~by_departure) => delay = Null
              /\ (by_arrival /\ IsoOk(arrival)) =>
                    /\ delay # Null
                    /\ IsNearest(delay[1], LateByIso(actual_arrival, arrival), 60)
              /\ by_departure =>
                    /\ delay # Null
                    /\ IsNearest(delay[1], LateByIso(actual_departure, departure), 60)

\* C26: in both normalizers a delay that the API does not supply is the
\* actual time minus the scheduled time in seconds, divided by 60 and
\* rounded to the nearest minute; it is null, never 0, when the actual or
\* the scheduled time is missing.
C26_DerivedDelayRounded == C26_ConnectionDelay /\ C26_StationboardDelay

\* The fields of a connection record that are derived from 'to'.
ToDerived ==
    {"to_station_id", "to_station_name", "arrival_date", "arrival_time",
     "arrival_timestamp", "arrival_delay", "arrival_platform", "travel_delay"}
ToMissing ==
    /\ normalized.fn = "process_connection"
    /\ SafeGet(Object(normalized.connection), "to", Null) = Null

\* C27 as stated: process_connection applied to a connection whose 'to' is
\* missing or null does not raise and returns a record in which every field
\* derived from 'to' is null.
C27_ToMissingAllNull ==
    ToMissing =>
        /\ ~normalized.raised
        /\ \A field \in ToDerived : normalized.returned[field] = Null

\* C27 as amended: it does not raise, to_station_id and to_station_name are
\* the empty string and the other fields derived from 'to' are null.
C27_ToMissingNullOrEmpty ==
    ToMissing =>
        /\ ~normalized.raised
        /\ normalized.returned.to_station_id = <<"">>
        /\ normalized.returned.to_station_name = <<"">>
        /\ \A field \in ToDerived \ {"to_station_id", "to_station_name"} :
              normalized.returned[field] = Null

\* C27 happens: a connection without 'to' was normalized, and its 'from'
\* side gave a departure delay.
C27_Witness ==
    /\ normalized.fn = "process_connection"
    /\ "to" \notin DOMAIN normalized.connection
    /\ ~normalized.raised
    /\ normalized.returned.departure_delay # Null
    /\ normalized.returned.arrival_delay = Null

\* Every station was asked for every day of the period once, station by
\* station and in the order of the days.
PeriodDays == period.end - period.start + 1
DaysCollectedOnce ==
    direct.days =
        [i \in 1..(Len(TARGET_STATIONS) * PeriodDays) |->
            <<((i - 1) \div PeriodDays) + 1, period.start + ((i - 1) % PeriodDays)>>]

\* The rows of every file belong to the month of the file: one segment per
\* calendar month.
SegmentsByMonth ==
    \A f \in DOMAIN files :
        \A i \in 1..Len(files[f]) : files[f][i].request_date[1] = f[1][1]

\* C29: collect_data_for_period(start_date, end_date) terminates for every
\* start_date <= end_date, also when end_date is not the last day of its
\* month, having collected for each target station every date of the period
\* exactly once, in one segment per calendar month.
C29_PeriodTerminates ==
    (collecting = "slots") ~> (collecting = "done" /\ DaysCollectedOnce /\ SegmentsByMonth)

\* C28: a _make_request call changes the request counter of its endpoint by
\* exactly +1 when it returns a payload fetched from the network and by 0
\* when it returns an error result or a cached payload: the start of a call
\* changes no counter (apart from the daily reset), and an attempt that ends
\* in a 429, another HTTP error, a network exception or an undecodable body
\* leaves the counters as they are.
C28_CounterCountsPayloads ==
    [][ /\ StartsCall =>
              REQUEST_COUNTER' =
                 IF served' # "cache" /\ NewDay(last_reset, now')
                 THEN [e \in Endpoints |-> 0] ELSE REQUEST_COUNTER
        /\ pc = "loop" =>
              REQUEST_COUNTER' =
                 IF served' = "network"
                 THEN [REQUEST_COUNTER EXCEPT ![endpoint_type] = @ + 1]
                 ELSE REQUEST_COUNTER ]_vars

\* Every cache entry holds the body of a 200 response.
CacheHoldsBodies == \A k \in DOMAIN API_CACHE : API_CACHE[k].data[1] = "body"

\* C30: the cache only ever holds payloads of 200 responses.  No step of a
\* call changes API_CACHE except the one that returns the payload it
\* fetched, which stores that payload under the key of the request; so a
\* call that returns an error result (denial, retries exhausted) leaves
\* API_CACHE as it found it.
C30_CacheOnlyPayloads ==
    [][ /\ CacheHoldsBodies'
        /\ (StartsCall \/ pc = "loop") =>
              IF API_CACHE' # API_CACHE
              THEN /\ pc = "loop"
                   /\ pc' = "returned"
                   /\ ~IsError(result')
                   /\ served' = "network"
                   /\ API_CACHE' =
                         (CacheKey(EndpointUrl(endpoint_type), params) :>
                             [data |-> result'.data, timestamp |-> now']) @@ API_CACHE
              ELSE served' # "network" ]_vars

\* C30 happens: a call gave up after its retries and returned an error
\* result, and the cache holds nothing for its request.
C30_Witness ==
    /\ pc = "returned"
    /\ served \in {"limited", "failed"}
    /\ IsError(result)
    /\ gets = MAX_RETRIES + 1
    /\ CacheKey(EndpointUrl(endpoint_type), params) \notin DOMAIN API_CACHE

====
